---- MODULE Spec2Model ----
(***************************************************************************)
(* The pulse-network simulator of day20 (parts a and b).                   *)
(*                                                                         *)
(* A wiring text is a sequence of lines; a line is what the parser splits  *)
(* it into: the prefix character of the name ("%", "&" or none), the name  *)
(* without its prefix, whether "->" occurs, and the list of output names.  *)
(* A pulse is the tuple <<sender, receiver, level>> of the source, with    *)
(* FALSE for low and TRUE for high.  An Option<bool> is a sequence of      *)
(* length 0 (None) or 1 (Some).                                            *)
(***************************************************************************)
EXTENDS Integers, Sequences, FiniteSets, TLC

VARIABLES
    text,          \* the wiring text the network was built from
    modules,       \* day20/a: network.modules (name -> Module)
    pulses,        \* day20/a: solve's VecDeque of pending pulses
    pulses_low,    \* day20/a: solve's low tally
    pulses_high,   \* day20/a: solve's high tally
    press,         \* day20/a: iterations of `for _ in 0..1000` started
    pc,            \* day20/a: "loop", "done" or "panic"
    result,        \* day20/a: value returned by solve
    \* history of the run above (written, never read, by the actions)
    last,          \* the latest delivery: pulse, receiver's kind before, pulses emitted
    hist,          \* per module name: its two latest deliveries, oldest first
    created,       \* pulses created so far, by level
    sent,          \* pulses created in the current tick, in creation order
    recv,          \* pulses delivered in the current tick, in delivery order
    heard,         \* <<receiver, sender>> -> level of the latest pulse delivered
    first_low,     \* the press during which the sink first got a low pulse, 0 if none
    emitted,       \* module name -> level of the pulses it sent last
    \* a second run of day20/a solve, on a network parsed from the same text
    modules2, pulses2, pulses_low2, pulses_high2, press2, pc2, result2,
    \* day20/b
    network,       \* main's network, handed to solve by reference
    subnetworks,   \* solve: the <<start, end, subnetwork>> triples of partition
    idx,           \* solve: position of subnetworks.iter_mut()
    ret,           \* solve: the running lcm
    states,        \* calculate_cycle: snapshot -> step it was recorded at
    step,          \* calculate_cycle: `for step in 1..`
    cycle_pulses,  \* calculate_cycle: its VecDeque `pulses`
    pcB,           \* day20/b: "call", "tick", "done" or "panic"
    \* history of day20/b
    periods,       \* the (cycle_start, cycle_end) pairs calculate_cycle returned to solve
    earlier,       \* ret and periods of an earlier run of main on the text, if any
    snaps          \* <<idx, k>> -> the sub-network of position idx after k ticks

varsA == <<modules, pulses, pulses_low, pulses_high, press, pc, result>>
histA == <<last, hist, created, sent, recv, heard, first_low, emitted>>
vars2 == <<modules2, pulses2, pulses_low2, pulses_high2, press2, pc2, result2>>
varsB == <<network, subnetworks, idx, ret, states, step, cycle_pulses, pcB,
           periods, earlier, snaps>>
vars == <<text, varsA, histA, vars2, varsB>>

----------------------------------------------------------------------------
(* Bounds of the model *)

\* button presses simulated by the bounded part A run
MaxPress == 2
\* pulses tallied before the bounded part A run is cut off
MaxPulses == 24

\* day20/a solve: `for _ in 0..1000`
NumPresses == 1000

----------------------------------------------------------------------------
(* Kind, Module *)

Broadcast == [tag |-> "Broadcast"]
FlipFlop(on) == [tag |-> "FlipFlop", on |-> on]
Conjunction(memory) == [tag |-> "Conjunction", memory |-> memory]

Module(kind, name, input, output) ==
    [kind |-> kind, name |-> name, input |-> input, output |-> output]

\* BTreeMap::insert: a later value replaces an earlier one under the same key
Insert(map, k, v) == [x \in (DOMAIN map) \cup {k} |-> IF x = k THEN v ELSE map[x]]

EmptyMap == [x \in {} |-> {}]

\* iter().position(|y| y == x): the first index holding x, 0 for None
Position(seq, x) ==
    IF \E i \in 1..Len(seq) : seq[i] = x
    THEN CHOOSE i \in 1..Len(seq) : seq[i] = x /\ \A j \in 1..(i - 1) : seq[j] # x
    ELSE 0

\* every order a HashSet of the names S may iterate in
RECURSIVE IterOrders(_)
IterOrders(S) ==
    IF S = {} THEN {<<>>}
    ELSE UNION {{<<x>> \o rest : rest \in IterOrders(S \ {x})} : x \in S}

----------------------------------------------------------------------------
(* parse_text *)

\* `line.len() == 0` after the trim
IsEmpty(line) ==
    line.prefix = "" /\ line.name = "" /\ ~line.arrow /\ line.output = <<>>

\* no kind: the `unreachable!("Unknown kind for module {name}")`
Unknown == [tag |-> "Unknown"]

\* mutant: every name without a prefix declares a Broadcast
KindOfAnyName(line) ==
    IF line.prefix = "%" THEN FlipFlop(FALSE)
    ELSE IF line.prefix = "&" THEN Conjunction(<<>>)
    ELSE Broadcast

\* the kind the name selects: by its prefix, or as the name broadcaster
KindOf(line) ==
    IF line.prefix = "%" THEN FlipFlop(FALSE)
    ELSE IF line.prefix = "&" THEN Conjunction(<<>>)
    ELSE IF line.name = "broadcaster" THEN Broadcast
    ELSE Unknown

\* mutant: name is added to the consumers' set of its first output only
ConsumeFirst(consumes, output, i, name) ==
    IF output = <<>> THEN consumes
    ELSE Insert(consumes, output[1],
                IF output[1] \in DOMAIN consumes THEN consumes[output[1]] \cup {name}
                ELSE {name})

\* `for x in output.iter()`: name is added to the consumers' set of every output
RECURSIVE Consume(_, _, _, _)
Consume(consumes, output, i, name) ==
    IF i > Len(output) THEN consumes
    ELSE LET x == output[i]
             set == IF x \in DOMAIN consumes THEN consumes[x] \cup {name} ELSE {name}
         IN Consume(Insert(consumes, x, set), output, i + 1, name)

\* the loop over the lines: modules and consumes after line i.., or the panic
\* of split_once's unwrap or of the unknown kind
RECURSIVE ParseLines(_, _, _, _)
ParseLines(lines, i, mods, consumes) ==
    IF i > Len(lines) THEN [modules |-> mods, consumes |-> consumes, panic |-> FALSE]
    ELSE LET line == lines[i]
             module == Module(KindOf(line), line.name, <<>>, line.output)
         IN IF IsEmpty(line) THEN ParseLines(lines, i + 1, mods, consumes)
            ELSE IF ~line.arrow \/ KindOf(line) = Unknown
            THEN [modules |-> mods, consumes |-> consumes, panic |-> TRUE]
            ELSE ParseLines(lines, i + 1,
                            Insert(mods, line.name, module),
                            Consume(consumes, line.output, 1, line.name))

\* the choices of an iteration order for the consumers' set of every defined module
RECURSIVE InputOrders(_, _)
InputOrders(names, consumes) ==
    IF names = {} THEN {EmptyMap}
    ELSE LET n == CHOOSE x \in names : TRUE
             rest == InputOrders(names \ {n}, consumes)
             mine == IF n \in DOMAIN consumes THEN IterOrders(consumes[n]) ELSE {<<>>}
         IN {Insert(r, n, o) : r \in rest, o \in mine}

\* mutant: a Conjunction's memory is sized to its output list
WireByOutputs(mods, order) ==
    [n \in DOMAIN mods |->
        LET m == mods[n]
        IN Module(IF m.kind.tag = "Conjunction"
                  THEN Conjunction([i \in 1..Len(m.output) |-> FALSE])
                  ELSE m.kind,
                  m.name, order[n], m.output)]

\* the last two loops: input lists pushed in the set's iteration order, then
\* every Conjunction's memory sized to its input list, all low
Wire(mods, order) ==
    [n \in DOMAIN mods |->
        LET m == mods[n]
            input == order[n]
        IN Module(IF m.kind.tag = "Conjunction"
                  THEN Conjunction([i \in 1..Len(input) |-> FALSE])
                  ELSE m.kind,
                  m.name, input, m.output)]

\* the networks parse_text may return for a text (one per iteration order);
\* none if it panics
ParseText(lines) ==
    LET parsed == ParseLines(lines, 1, EmptyMap, EmptyMap)
    IN IF parsed.panic THEN {}
       ELSE {Wire(parsed.modules, order) :
                order \in InputOrders(DOMAIN parsed.modules, parsed.consumes)}

----------------------------------------------------------------------------
(* Network::pulse *)

\* mutant: the Broadcast passes on the level it received
BroadcastArmForward(pulse) == <<pulse>>

\* Kind::Broadcast arm: the Option<bool> to send
BroadcastArm(pulse) == <<FALSE>>

\* mutant: the FlipFlop flips and sends the bit it had before
FlipFlopArmOld(on, pulse) ==
    IF pulse THEN [kind |-> FlipFlop(on), emit |-> <<>>]
    ELSE [kind |-> FlipFlop(~on), emit |-> <<on>>]

\* mutant: the FlipFlop flips on a pulse of either level
FlipFlopArmAnyLevel(on, pulse) == [kind |-> FlipFlop(~on), emit |-> <<~on>>]

\* mutant: a low pulse switches the FlipFlop on instead of flipping it
FlipFlopArmSet(on, pulse) ==
    IF pulse THEN [kind |-> FlipFlop(on), emit |-> <<>>]
    ELSE [kind |-> FlipFlop(TRUE), emit |-> <<TRUE>>]

\* mutant: a high pulse flips the FlipFlop, which sends nothing
FlipFlopArmFlipOnHigh(on, pulse) ==
    IF pulse THEN [kind |-> FlipFlop(~on), emit |-> <<>>]
    ELSE [kind |-> FlipFlop(~on), emit |-> <<~on>>]

\* Kind::FlipFlop arm: the new kind and the Option<bool> to send
FlipFlopArm(on, pulse) ==
    IF pulse THEN [kind |-> FlipFlop(on), emit |-> <<>>]
    ELSE [kind |-> FlipFlop(~on), emit |-> <<~on>>]

\* mutant: the level is pushed at the end of the memory
RecordPush(memory, producer_idx, pulse) == Append(memory, pulse)

\* memory[producer_idx] = pulse
Record(memory, producer_idx, pulse) == [memory EXCEPT ![producer_idx] = pulse]

\* mutant: low as soon as one remembered level is high
ConjunctionEmitAny(memory) ==
    IF \A i \in 1..Len(memory) : memory[i] = FALSE THEN <<TRUE>> ELSE <<FALSE>>

\* mutant: only the first remembered level is looked at
ConjunctionEmitFirst(memory) ==
    IF memory # <<>> /\ memory[1] = FALSE THEN <<TRUE>> ELSE <<FALSE>>

\* high if some remembered level is low, low otherwise
ConjunctionEmit(memory) ==
    IF \E i \in 1..Len(memory) : memory[i] = FALSE THEN <<TRUE>> ELSE <<FALSE>>

\* Kind::Conjunction arm; the unwrap of position() panics on an unknown sender
ConjunctionArm(module, pulse, sender) ==
    LET producer_idx == Position(module.input, sender)
    IN IF producer_idx = 0 \/ producer_idx > Len(module.kind.memory)
       THEN [kind |-> module.kind, emit |-> <<>>, panic |-> TRUE]
       ELSE LET memory == Record(module.kind.memory, producer_idx, pulse)
            IN [kind |-> Conjunction(memory), emit |-> ConjunctionEmit(memory),
                panic |-> FALSE]

\* mutant: a name listed twice among the outputs is sent one pulse
FanoutOnce(receiver, output, emit) ==
    IF emit = <<>> THEN <<>>
    ELSE LET first == SelectSeq([i \in 1..Len(output) |-> i],
                                LAMBDA i : Position(output, output[i]) = i)
         IN [k \in 1..Len(first) |-> <<receiver, output[first[k]], emit[1]>>]

\* one pulse per entry of the output list, in order, all from the receiver
Fanout(receiver, output, emit) ==
    IF emit = <<>> THEN <<>>
    ELSE [i \in 1..Len(output) |-> <<receiver, output[i], emit[1]>>]

\* mutant: the new state is stored under the sender's name when the sender
\* is a module
PulseWrongKey(mods, receiver, pulse, sender) ==
    IF receiver \notin DOMAIN mods
    THEN [modules |-> mods, pulses |-> <<>>, panic |-> TRUE]
    ELSE LET module == mods[receiver]
             key == IF sender \in DOMAIN mods THEN sender ELSE receiver
             arm == IF module.kind.tag = "Broadcast"
                    THEN [kind |-> module.kind, emit |-> BroadcastArm(pulse), panic |-> FALSE]
                    ELSE IF module.kind.tag = "FlipFlop"
                    THEN FlipFlopArm(module.kind.on, pulse) @@ [panic |-> FALSE]
                    ELSE ConjunctionArm(module, pulse, sender)
         IN [modules |-> [mods EXCEPT ![key].kind = arm.kind],
             pulses |-> Fanout(receiver, module.output, arm.emit),
             panic |-> arm.panic]

\* Network::pulse: the network after the call, the pulses returned, and
\* whether an unwrap panicked
Pulse(mods, receiver, pulse, sender) ==
    IF receiver \notin DOMAIN mods
    THEN [modules |-> mods, pulses |-> <<>>, panic |-> TRUE]
    ELSE LET module == mods[receiver]
             arm == IF module.kind.tag = "Broadcast"
                    THEN [kind |-> module.kind, emit |-> BroadcastArm(pulse), panic |-> FALSE]
                    ELSE IF module.kind.tag = "FlipFlop"
                    THEN FlipFlopArm(module.kind.on, pulse) @@ [panic |-> FALSE]
                    ELSE ConjunctionArm(module, pulse, sender)
         IN [modules |-> [mods EXCEPT ![receiver].kind = arm.kind],
             pulses |-> Fanout(receiver, module.output, arm.emit),
             panic |-> arm.panic]

----------------------------------------------------------------------------
(* day20/a solve *)

\* mutant: every popped pulse is tallied as low
TallyAllLow(low, high, pulse) == <<low + 1, high>>

\* the tallies after counting one popped pulse
Tally(low, high, pulse) ==
    IF pulse THEN <<low, high + 1>> ELSE <<low + 1, high>>

\* mutant: the front pulse is read and left in the queue
PopFrontPeek(queue) == queue

\* pulses.pop_front(): the rest of the queue
PopFront(queue) == Tail(queue)

\* mutant: the new pulses go to the front of the queue (depth first)
ExtendFront(queue, new_pulses) == new_pulses \o queue

\* pulses.extend(new_pulses)
Extend(queue, new_pulses) == queue \o new_pulses

\* created after the pulses ps come into being
Count(c, ps) ==
    [low |-> c.low + Cardinality({i \in 1..Len(ps) : ~ps[i][3]}),
     high |-> c.high + Cardinality({i \in 1..Len(ps) : ps[i][3]})]

\* the record of one delivery
Delivery(p, mods, out) ==
    [sender |-> p[1], receiver |-> p[2], pulse |-> p[3],
     defined |-> p[2] \in DOMAIN mods,
     before |-> IF p[2] \in DOMAIN mods THEN mods[p[2]].kind ELSE Broadcast,
     out |-> out]

\* the level sent last by each module, after the pulses out were returned
\* by one call of Network::pulse
Emitted(e, out) ==
    IF out = <<>> THEN e ELSE Insert(e, out[1][1], out[1][3])

Remember(h, d) ==
    IF d.receiver \in DOMAIN h
    THEN [h EXCEPT ![d.receiver] = IF Len(@) < 2 THEN Append(@, d) ELSE <<@[2], d>>]
    ELSE h

\* mutant: the pulse of the button is not tallied
PressStepUncounted(mods, low) ==
    LET r == Pulse(mods, "broadcaster", FALSE, "button")
    IN [modules |-> r.modules, pulses |-> r.pulses, low |-> low, panic |-> r.panic]

\* mutant: the low tally starts afresh with every press
PressStepReset(mods, low) ==
    LET r == Pulse(mods, "broadcaster", FALSE, "button")
    IN [modules |-> r.modules, pulses |-> r.pulses, low |-> 1, panic |-> r.panic]

\* one iteration of the for loop up to the while: the seed is tallied and
\* delivered to the broadcaster directly
PressStep(mods, low) ==
    LET r == Pulse(mods, "broadcaster", FALSE, "button")
    IN [modules |-> r.modules, pulses |-> r.pulses, low |-> low + 1, panic |-> r.panic]

\* mutant: the pulse is delivered without the contains_key test
DeliverStepUnchecked(mods, pending, low, high) ==
    LET p == Head(pending)
        rest == PopFront(pending)
        t == Tally(low, high, p[3])
        r == Pulse(mods, p[2], p[3], p[1])
    IN [modules |-> r.modules, pulses |-> Extend(rest, r.pulses),
        low |-> t[1], high |-> t[2], out |-> r.pulses, panic |-> r.panic]

\* one iteration of `while let Some(..) = pulses.pop_front()`: the pulse is
\* tallied, then delivered if its receiver is a module
DeliverStep(mods, pending, low, high) ==
    LET p == Head(pending)
        rest == PopFront(pending)
        t == Tally(low, high, p[3])
    IN IF p[2] \in DOMAIN mods
       THEN LET r == Pulse(mods, p[2], p[3], p[1])
            IN [modules |-> r.modules, pulses |-> Extend(rest, r.pulses),
                low |-> t[1], high |-> t[2], out |-> r.pulses, panic |-> r.panic]
       ELSE [modules |-> mods, pulses |-> rest,
             low |-> t[1], high |-> t[2], out |-> <<>>, panic |-> FALSE]

SeedA == <<"button", "broadcaster", FALSE>>

\* the sink's name
Sink == "rx"

Press(n) ==
    /\ pc = "loop"
    /\ pulses = <<>>
    /\ press < n
    /\ LET s == PressStep(modules, pulses_low)
           d == Delivery(SeedA, modules, s.pulses)
       IN /\ pulses_low' = s.low
          /\ modules' = s.modules
          /\ pulses' = s.pulses
          /\ pc' = IF s.panic THEN "panic" ELSE "loop"
          /\ last' = d
          /\ hist' = Remember(hist, d)
          /\ created' = Count(created, <<SeedA>> \o s.pulses)
          /\ sent' = <<SeedA>> \o s.pulses
          /\ recv' = <<SeedA>>
          /\ heard' = Insert(heard, <<SeedA[2], SeedA[1]>>, SeedA[3])
          /\ first_low' = first_low
          /\ emitted' = Emitted(emitted, s.pulses)
    /\ press' = press + 1
    /\ UNCHANGED <<text, pulses_high, result>>

Deliver ==
    /\ pc = "loop"
    /\ pulses # <<>>
    /\ LET p == Head(pulses)
           s == DeliverStep(modules, pulses, pulses_low, pulses_high)
           d == Delivery(p, modules, s.out)
       IN /\ pulses_low' = s.low
          /\ pulses_high' = s.high
          /\ modules' = s.modules
          /\ pulses' = s.pulses
          /\ pc' = IF s.panic THEN "panic" ELSE "loop"
          /\ last' = d
          /\ hist' = Remember(hist, d)
          /\ created' = Count(created, s.out)
          /\ sent' = sent \o s.out
          /\ recv' = Append(recv, p)
          /\ heard' = Insert(heard, <<p[2], p[1]>>, p[3])
          /\ first_low' = IF first_low = 0 /\ p[2] = Sink /\ ~p[3] THEN press ELSE first_low
          /\ emitted' = Emitted(emitted, s.out)
    /\ UNCHANGED <<text, press, result>>

\* `pulses_low * pulses_high` after the last iteration
Return(n) ==
    /\ pc = "loop"
    /\ pulses = <<>>
    /\ press = n
    /\ result' = pulses_low * pulses_high
    /\ pc' = "done"
    /\ UNCHANGED <<text, modules, pulses, pulses_low, pulses_high, press, histA>>

NoDelivery ==
    [sender |-> "", receiver |-> "", pulse |-> FALSE, defined |-> FALSE,
     before |-> Broadcast, out |-> <<>>]

\* solve's locals before the first iteration, on a freshly parsed network
InitSolve(net) ==
    /\ modules = net
    /\ pulses = <<>>
    /\ pulses_low = 0
    /\ pulses_high = 0
    /\ press = 0
    /\ pc = "loop"
    /\ result = 0
    /\ last = NoDelivery
    /\ hist = [n \in DOMAIN net |-> <<>>]
    /\ created = [low |-> 0, high |-> 0]
    /\ sent = <<>>
    /\ recv = <<>>
    /\ heard = EmptyMap
    /\ first_low = 0
    /\ emitted = EmptyMap

\* the same three steps of a second run
Press2(n) ==
    /\ pc2 = "loop"
    /\ pulses2 = <<>>
    /\ press2 < n
    /\ LET s == PressStep(modules2, pulses_low2)
       IN /\ pulses_low2' = s.low
          /\ modules2' = s.modules
          /\ pulses2' = s.pulses
          /\ pc2' = IF s.panic THEN "panic" ELSE "loop"
    /\ press2' = press2 + 1
    /\ UNCHANGED <<pulses_high2, result2>>

Deliver2 ==
    /\ pc2 = "loop"
    /\ pulses2 # <<>>
    /\ LET s == DeliverStep(modules2, pulses2, pulses_low2, pulses_high2)
       IN /\ pulses_low2' = s.low
          /\ pulses_high2' = s.high
          /\ modules2' = s.modules
          /\ pulses2' = s.pulses
          /\ pc2' = IF s.panic THEN "panic" ELSE "loop"
    /\ UNCHANGED <<press2, result2>>

Return2(n) ==
    /\ pc2 = "loop"
    /\ pulses2 = <<>>
    /\ press2 = n
    /\ result2' = pulses_low2 * pulses_high2
    /\ pc2' = "done"
    /\ UNCHANGED <<modules2, pulses2, pulses_low2, pulses_high2, press2>>

InitSolve2(net) ==
    /\ modules2 = net
    /\ pulses2 = <<>>
    /\ pulses_low2 = 0
    /\ pulses_high2 = 0
    /\ press2 = 0
    /\ pc2 = "loop"
    /\ result2 = 0

\* no second run
NoRun2 ==
    /\ modules2 = EmptyMap
    /\ pulses2 = <<>>
    /\ pulses_low2 = 0
    /\ pulses_high2 = 0
    /\ press2 = 0
    /\ pc2 = "none"
    /\ result2 = 0

\* no run of part B
NoPartB ==
    /\ network = EmptyMap
    /\ subnetworks = <<>>
    /\ idx = 0
    /\ ret = 0
    /\ states = EmptyMap
    /\ step = 0
    /\ cycle_pulses = <<>>
    /\ pcB = "none"
    /\ periods = <<>>
    /\ earlier = <<>>
    /\ snaps = EmptyMap

----------------------------------------------------------------------------
(* day20/b: find_sub_graphs_start_end *)

\* the names of the texts below in the order a BTreeMap<&str, _> iterates (bytes)
NameOrder ==
    <<"a", "a1", "a2", "a3", "ac", "ai", "b", "b1", "b2", "b3", "bc", "bi",
      "broadcaster", "c", "con", "inv", "output", "p", "rx">>

\* the keys S as modules.iter() visits them
Sorted(S) == SelectSeq(NameOrder, LAMBDA n : n \in S)

\* Vec::contains
Contains(seq, x) == Position(seq, x) # 0

\* the names of the modules whose output list holds target, in map order
Feeding(net, target) ==
    SelectSeq(Sorted(DOMAIN net), LAMBDA n : Contains(net[n].output, target))

\* `for input_name in node.input.iter()` of the walk: the edges to the inputs
\* are pushed up to and including the first input that is a root
RECURSIVE PushInputs(_, _, _, _, _)
PushInputs(edges, from, input, i, trees_start) ==
    IF i > Len(input) THEN edges
    ELSE LET pushed == Append(edges, <<from, input[i]>>)
         IN IF Contains(trees_start, input[i]) THEN pushed
            ELSE PushInputs(pushed, from, input, i + 1, trees_start)

\* `while let Some(edge) = edges.pop()`: the pair found (a sequence of length
\* 0 or 1) and whether the unwrap of modules.get(edge.1) panicked
RECURSIVE Walk(_, _, _, _, _)
Walk(net, trees_start, node_end, edges, visited) ==
    IF edges = <<>> THEN [found |-> <<>>, panic |-> FALSE]
    ELSE LET edge == edges[Len(edges)]
             rest == SubSeq(edges, 1, Len(edges) - 1)
         IN IF Contains(trees_start, edge[2])
            THEN [found |-> << <<edge[2], node_end>> >>, panic |-> FALSE]
            ELSE IF edge \in visited
            THEN Walk(net, trees_start, node_end, rest, visited)
            ELSE IF edge[2] \notin DOMAIN net
            THEN [found |-> <<>>, panic |-> TRUE]
            ELSE Walk(net, trees_start, node_end,
                      PushInputs(rest, edge[2], net[edge[2]].input, 1, trees_start),
                      visited \cup {edge})

\* `for node_end in &trees_end`
RECURSIVE WalkEnds(_, _, _, _, _)
WalkEnds(net, trees_start, trees_end, i, start_end) ==
    IF i > Len(trees_end) THEN [list |-> start_end, panic |-> FALSE]
    ELSE LET node_end == trees_end[i]
             input == net[node_end].input
             edges == [k \in 1..Len(input) |-> <<node_end, input[k]>>]
             w == Walk(net, trees_start, node_end, edges, {})
         IN IF w.panic THEN [list |-> start_end, panic |-> TRUE]
            ELSE WalkEnds(net, trees_start, trees_end, i + 1, start_end \o w.found)

\* mutant: only the absence of a module in front of the sink is fatal
GoodLuckIfNone(net, penultimate) == Len(penultimate) = 0

\* the two `unreachable!("Good luck")`: penultimate is not a single module,
\* or the module is no Conjunction
GoodLuck(net, penultimate) ==
    \/ Len(penultimate) # 1
    \/ net[penultimate[1]].kind.tag # "Conjunction"

\* trees_start: the clone of the broadcaster's output list
TreesStart(net) == net["broadcaster"].output

\* mutant: the ends are the modules in front of the sink
TreesEndSink(net, penultimate) == Feeding(net, Sink)

\* trees_end: the keys of the modules whose output lists hold the name of
\* penultimate[0]
TreesEnd(net, penultimate) == Feeding(net, net[penultimate[1]].name)

\* find_sub_graphs_start_end: the (start, end) pairs, or a panic
FindSubGraphsStartEnd(net) ==
    IF "broadcaster" \notin DOMAIN net THEN [list |-> <<>>, panic |-> TRUE]
    ELSE LET trees_start == TreesStart(net)
             penultimate == Feeding(net, Sink)
         IN IF GoodLuck(net, penultimate) THEN [list |-> <<>>, panic |-> TRUE]
            ELSE WalkEnds(net, trees_start, TreesEnd(net, penultimate), 1, <<>>)

----------------------------------------------------------------------------
(* day20/b: partition *)

\* the clones of the defined modules among output, in order
Consumers(net, output) ==
    LET known == SelectSeq(output, LAMBDA o : o \in DOMAIN net)
    IN [i \in 1..Len(known) |-> net[known[i]]]

\* mutant: the outputs of end are followed like those of any module
RECURSIVE GrowThroughEnd(_, _, _, _)
GrowThroughEnd(net, end, pending, mods) ==
    IF pending = <<>> THEN mods
    ELSE LET module == pending[Len(pending)]
             rest == SubSeq(pending, 1, Len(pending) - 1)
         IN IF module.name \in DOMAIN mods THEN GrowThroughEnd(net, end, rest, mods)
            ELSE GrowThroughEnd(net, end, rest \o Consumers(net, module.output),
                                Insert(mods, module.name, module))

\* mutant: the outputs of no module are followed
GrowNoFurther(net, end, pending, mods) ==
    [n \in {pending[i].name : i \in DOMAIN pending} |-> net[n]]

\* `while let Some(module) = pending.pop()`
RECURSIVE Grow(_, _, _, _)
Grow(net, end, pending, mods) ==
    IF pending = <<>> THEN mods
    ELSE LET module == pending[Len(pending)]
             rest == SubSeq(pending, 1, Len(pending) - 1)
         IN IF module.name \in DOMAIN mods THEN Grow(net, end, rest, mods)
            ELSE Grow(net, end,
                      IF module.name # end
                      THEN rest \o Consumers(net, module.output)
                      ELSE rest,
                      Insert(mods, module.name, module))

\* partition: one <<start, end, subnetwork>> per pair, or a panic of an unwrap
RECURSIVE Partition(_, _, _, _)
Partition(net, start_end, i, acc) ==
    IF i > Len(start_end) THEN [list |-> acc, panic |-> FALSE]
    ELSE LET start == start_end[i][1]
             end == start_end[i][2]
         IN IF start \notin DOMAIN net \/ end \notin DOMAIN net
            THEN [list |-> acc, panic |-> TRUE]
            ELSE Partition(net, start_end, i + 1,
                           Append(acc, <<start, end,
                                         Grow(net, end, <<net[start], net[end]>>, EmptyMap)>>))

----------------------------------------------------------------------------
(* day20/b: solve and calculate_cycle *)

\* ticks calculate_cycle is followed for
MaxStep == 12
\* pulses the queue of calculate_cycle may hold before the run is cut off
MaxQueue == 6

RECURSIVE Gcd(_, _)
Gcd(a, b) == IF b = 0 THEN a ELSE Gcd(b, a % b)

\* mutant: the larger of the two numbers
LcmMax(a, b) == IF a > b THEN a ELSE b

\* mutant: the periods are multiplied
LcmProduct(a, b) == a * b

\* num::integer::lcm
Lcm(a, b) == IF a = 0 /\ b = 0 THEN 0 ELSE a * (b \div Gcd(a, b))

\* mutant: the period is taken to start at tick 0
FoldFromZero(acc, cycle_start, cycle_end) == Lcm(acc, cycle_end)

\* solve: `ret = lcm(ret, cycle_end - cycle_start)`
Fold(acc, cycle_start, cycle_end) == Lcm(acc, cycle_end - cycle_start)

\* mutant: any snapshot counts as the one recorded at tick 0
LookupAny(recorded, snapshot) == <<0>>

\* mutant: the snapshot is never found among those recorded
LookupNever(recorded, snapshot) == <<>>

\* states.get(&network): the step recorded for the snapshot, if any
Lookup(recorded, snapshot) ==
    IF snapshot \in DOMAIN recorded THEN <<recorded[snapshot]>> ELSE <<>>

\* mutant: the key holds the FlipFlops only
SnapshotFlipFlops(net) ==
    [n \in {x \in DOMAIN net : net[x].kind.tag = "FlipFlop"} |-> net[n]]

\* network.clone() as the key of states: Network derives Hash and Eq over its
\* one field, the map of the modules
Snapshot(net) == net

\* the sub-network calculate_cycle is working on
Current == subnetworks[idx]

\* mutant: the tick is seeded like a press of the button
SeedBButton(start) == <<"button", "broadcaster", FALSE>>

SeedB(start) == <<"broadcaster", start, FALSE>>

\* mutant: an empty list of pairs is fatal
DecomposeOrFail ==
    /\ pcB = "start"
    /\ LET se == FindSubGraphsStartEnd(network)
           parts == IF se.panic THEN [list |-> <<>>, panic |-> TRUE]
                    ELSE Partition(network, se.list, 1, <<>>)
       IN /\ subnetworks' = parts.list
          /\ pcB' = IF parts.panic \/ parts.list = <<>> THEN "panic" ELSE "call"
    /\ idx' = 1
    /\ ret' = 1
    /\ periods' = <<>>
    /\ snaps' = EmptyMap
    /\ UNCHANGED <<text, network, states, step, cycle_pulses, earlier>>

\* solve's first two statements
Decompose ==
    /\ pcB = "start"
    /\ LET se == FindSubGraphsStartEnd(network)
           parts == IF se.panic THEN [list |-> <<>>, panic |-> TRUE]
                    ELSE Partition(network, se.list, 1, <<>>)
       IN /\ subnetworks' = parts.list
          /\ pcB' = IF parts.panic THEN "panic" ELSE "call"
    /\ idx' = 1
    /\ ret' = 1
    /\ periods' = <<>>
    /\ snaps' = EmptyMap
    /\ UNCHANGED <<text, network, states, step, cycle_pulses, earlier>>

\* calculate_cycle is entered for the next sub-network: the snapshot of tick 0
\* is recorded and the first tick seeded
EnterCycle ==
    /\ pcB = "call"
    /\ idx <= Len(subnetworks)
    /\ states' = Insert(EmptyMap, Snapshot(Current[3]), 0)
    /\ step' = 1
    /\ cycle_pulses' = <<SeedB(Current[1])>>
    /\ pcB' = "tick"
    /\ snaps' = Insert(snaps, <<idx, 0>>, Current[3])
    /\ UNCHANGED <<text, network, subnetworks, idx, ret, periods, earlier>>

\* mutant: the sub-networks share their modules with the network solve was
\* given
CycleDeliverShared ==
    /\ pcB = "tick"
    /\ cycle_pulses # <<>>
    /\ LET p == Head(cycle_pulses)
           rest == PopFront(cycle_pulses)
       IN IF p[2] \in DOMAIN Current[3]
          THEN LET r == Pulse(Current[3], p[2], p[3], p[1])
               IN /\ subnetworks' = [subnetworks EXCEPT ![idx][3] = r.modules]
                  /\ network' = [n \in DOMAIN network |->
                                    IF n \in DOMAIN r.modules THEN r.modules[n]
                                    ELSE network[n]]
                  /\ cycle_pulses' = Extend(rest, r.pulses)
                  /\ pcB' = IF r.panic THEN "panic" ELSE "tick"
          ELSE /\ cycle_pulses' = rest
               /\ UNCHANGED <<subnetworks, network, pcB>>
    /\ UNCHANGED <<text, idx, ret, states, step, periods, earlier, snaps>>

\* one iteration of calculate_cycle's while loop
CycleDeliver ==
    /\ pcB = "tick"
    /\ cycle_pulses # <<>>
    /\ LET p == Head(cycle_pulses)
           rest == PopFront(cycle_pulses)
       IN IF p[2] \in DOMAIN Current[3]
          THEN LET r == Pulse(Current[3], p[2], p[3], p[1])
               IN /\ subnetworks' = [subnetworks EXCEPT ![idx][3] = r.modules]
                  /\ cycle_pulses' = Extend(rest, r.pulses)
                  /\ pcB' = IF r.panic THEN "panic" ELSE "tick"
          ELSE /\ cycle_pulses' = rest
               /\ UNCHANGED <<subnetworks, pcB>>
    /\ UNCHANGED <<text, network, idx, ret, states, step, periods, earlier, snaps>>

\* the tick is over and its snapshot was recorded before: calculate_cycle
\* returns and solve folds the period into ret
CycleFound ==
    /\ pcB = "tick"
    /\ cycle_pulses = <<>>
    /\ Lookup(states, Snapshot(Current[3])) # <<>>
    /\ LET cycle_start == Lookup(states, Snapshot(Current[3]))[1]
           cycle_end == step
       IN /\ ret' = Fold(ret, cycle_start, cycle_end)
          /\ periods' = Append(periods, <<cycle_start, cycle_end>>)
    /\ snaps' = Insert(snaps, <<idx, step>>, Current[3])
    /\ idx' = idx + 1
    /\ pcB' = "call"
    /\ UNCHANGED <<text, network, subnetworks, states, step, cycle_pulses, earlier>>

\* the tick is over and its snapshot is new: it is recorded and the next tick
\* seeded
CycleNext ==
    /\ pcB = "tick"
    /\ cycle_pulses = <<>>
    /\ Lookup(states, Snapshot(Current[3])) = <<>>
    /\ states' = Insert(states, Snapshot(Current[3]), step)
    /\ step' = step + 1
    /\ cycle_pulses' = <<SeedB(Current[1])>>
    /\ snaps' = Insert(snaps, <<idx, step>>, Current[3])
    /\ UNCHANGED <<text, network, subnetworks, idx, ret, pcB, periods, earlier>>

\* solve returns ret
SolveReturn ==
    /\ pcB = "call"
    /\ idx > Len(subnetworks)
    /\ pcB' = "done"
    /\ UNCHANGED <<text, network, subnetworks, idx, ret, states, step, cycle_pulses,
                   periods, earlier, snaps>>

\* no run of part A
NoPartA ==
    /\ modules = EmptyMap
    /\ pulses = <<>>
    /\ pulses_low = 0
    /\ pulses_high = 0
    /\ press = 0
    /\ pc = "none"
    /\ result = 0
    /\ last = NoDelivery
    /\ hist = EmptyMap
    /\ created = [low |-> 0, high |-> 0]
    /\ sent = <<>>
    /\ recv = <<>>
    /\ heard = EmptyMap
    /\ first_low = 0
    /\ emitted = EmptyMap

----------------------------------------------------------------------------
(* Wiring texts *)

\* the line `<prefix><name> -> <output, ...>`
Line(prefix, name, output) ==
    [prefix |-> prefix, name |-> name, arrow |-> TRUE, output |-> output]

\* a line `<prefix><name>` without "->"
NoArrow(prefix, name) ==
    [prefix |-> prefix, name |-> name, arrow |-> FALSE, output |-> <<>>]

\* a line of white space
Blank == NoArrow("", "")

\* output lists of one or two names of D
Outputs(D) == {<<x>> : x \in D} \cup {<<x, y>> : x \in D, y \in D}

\* the declarations of a FlipFlop or Conjunction called name with outputs among D
Lines(name, D) == {Line(p, name, o) : p \in {"%", "&"}, o \in Outputs(D)}

\* broadcaster, a and possibly b, wired among a, b and the undefined rx; the
\* broadcaster's first output is a (the texts starting with b are these with
\* the two names exchanged)
Texts ==
    LET bl == {Line("", "broadcaster", o) : o \in {<<"a">>, <<"a", "a">>, <<"a", "b">>}}
        al == Lines("a", {"a", "b", "rx"})
        bs == Lines("b", {"a", "b", "rx"})
    IN {<<l0, l1>> : l0 \in bl, l1 \in al}
       \cup {<<l0, l1, l2>> : l0 \in bl, l1 \in al, l2 \in bs}

----------------------------------------------------------------------------
(* Part A on every text of Texts, cut off after MaxPress presses *)

Init ==
    /\ text \in Texts
    /\ \E net \in ParseText(text) : InitSolve(net)
    /\ NoRun2
    /\ NoPartB

Next ==
    \/ Press(MaxPress) /\ UNCHANGED <<vars2, varsB>>
    \/ pulses_low + pulses_high < MaxPulses /\ Deliver /\ UNCHANGED <<vars2, varsB>>
    \/ Return(MaxPress) /\ UNCHANGED <<vars2, varsB>>

Spec == Init /\ [][Next]_vars

----------------------------------------------------------------------------
(* Part A on texts in which a and b send pulses back to the broadcaster *)

TextsBroadcast ==
    LET bl == {Line("", "broadcaster", o) : o \in {<<"a">>, <<"a", "b">>}}
        al == Lines("a", {"b", "broadcaster"})
        bs == Lines("b", {"broadcaster", "rx"})
    IN {<<l0, l1, l2>> : l0 \in bl, l1 \in al, l2 \in bs}

InitBroadcast ==
    /\ text \in TextsBroadcast
    /\ \E net \in ParseText(text) : InitSolve(net)
    /\ NoRun2
    /\ NoPartB

SpecBroadcast == InitBroadcast /\ [][Next]_vars

----------------------------------------------------------------------------
(* Part A on texts whose third line declares a or broadcaster a second time *)

TextsRedeclared ==
    LET al == Lines("a", {"b", "broadcaster"})
        again == al \cup Lines("broadcaster", {"a"})
    IN {<<Line("", "broadcaster", <<"a">>), l1, l2>> : l1 \in al, l2 \in again}

InitRedeclared ==
    /\ text \in TextsRedeclared
    /\ \E net \in ParseText(text) : InitSolve(net)
    /\ NoRun2
    /\ NoPartB

SpecRedeclared == InitRedeclared /\ [][Next]_vars

----------------------------------------------------------------------------
(* Part A as written, 1000 presses, on the texts of its two tests *)

\* test_sample_1
Sample1 ==
    << Line("", "broadcaster", <<"a", "b", "c">>),
       Line("%", "a", <<"b">>),
       Line("%", "b", <<"c">>),
       Line("%", "c", <<"inv">>),
       Line("&", "inv", <<"a">>) >>

\* test_sample_2
Sample2 ==
    << Line("", "broadcaster", <<"a">>),
       Line("%", "a", <<"inv", "con">>),
       Line("&", "inv", <<"b">>),
       Line("%", "b", <<"con">>),
       Line("&", "con", <<"output">>) >>

InitSamples ==
    /\ text \in {Sample1, Sample2}
    /\ \E net \in ParseText(text) : InitSolve(net)
    /\ NoRun2
    /\ NoPartB

NextSamples ==
    \/ Press(NumPresses) /\ UNCHANGED <<vars2, varsB>>
    \/ Deliver /\ UNCHANGED <<vars2, varsB>>
    \/ Return(NumPresses) /\ UNCHANGED <<vars2, varsB>>

SpecSamples == InitSamples /\ [][NextSamples]_vars

----------------------------------------------------------------------------
(* Two runs of part A side by side, each on its own network parsed from the
   same text; both take a step of solve at a time *)

\* the texts of Texts in which b has a single output
TextsTwoRuns ==
    {t \in Texts : Len(t) = 3 => Len(t[3].output) = 1}

InitTwoRuns ==
    /\ text \in TextsTwoRuns
    /\ \E net \in ParseText(text) : InitSolve(net)
    /\ \E net \in ParseText(text) : InitSolve2(net)
    /\ NoPartB

SolveStep1 ==
    \/ Press(MaxPress)
    \/ pulses_low + pulses_high < MaxPulses /\ Deliver
    \/ Return(MaxPress)

SolveStep2 ==
    \/ Press2(MaxPress)
    \/ pulses_low2 + pulses_high2 < MaxPulses /\ Deliver2
    \/ Return2(MaxPress)

NextTwoRuns == SolveStep1 /\ SolveStep2 /\ UNCHANGED varsB

SpecTwoRuns == InitTwoRuns /\ [][NextTwoRuns]_vars

----------------------------------------------------------------------------
(* Part B on a, b and the Conjunction p that feeds rx *)

TextsB ==
    LET bl == {Line("", "broadcaster", o) : o \in {<<"a">>, <<"a", "a">>, <<"a", "b">>}}
        al == Lines("a", {"a", "b", "p"})
        bs == Lines("b", {"a", "b", "p"})
    IN {<<l0, l1, l2, Line("&", "p", <<"rx">>)>> : l0 \in bl, l1 \in al, l2 \in bs}

\* main has not read its input yet
InitCycle ==
    /\ text = <<>>
    /\ NoPartA
    /\ NoRun2
    /\ NoPartB

\* main reads a text of T and parses it; a panic of parse_text ends the
\* program with no network built
LoadFrom(T) ==
    /\ pcB = "none"
    /\ text' \in T
    /\ IF ParseText(text') = {}
       THEN network' = network /\ pcB' = "panic"
       ELSE network' \in ParseText(text') /\ pcB' = "start"
    /\ UNCHANGED <<subnetworks, idx, ret, states, step, cycle_pulses, periods, earlier,
                   snaps>>

Load == LoadFrom(TextsB)

\* calculate_cycle's loops and solve's loop around them
RunCycles ==
    \/ EnterCycle /\ UNCHANGED <<varsA, histA, vars2>>
    \/ Len(cycle_pulses) <= MaxQueue /\ CycleDeliver /\ UNCHANGED <<varsA, histA, vars2>>
    \/ CycleFound /\ UNCHANGED <<varsA, histA, vars2>>
    \/ step < MaxStep /\ CycleNext /\ UNCHANGED <<varsA, histA, vars2>>
    \/ SolveReturn /\ UNCHANGED <<varsA, histA, vars2>>

NextCycle ==
    \/ Load /\ UNCHANGED <<varsA, histA, vars2>>
    \/ Decompose /\ UNCHANGED <<varsA, histA, vars2>>
    \/ RunCycles

\* once solve has its sub-networks it runs on until it returns or panics
SpecCycle == InitCycle /\ [][NextCycle]_vars /\ WF_vars(RunCycles)

----------------------------------------------------------------------------
(* Part B on two sub-circuits that feed the Conjunction p in front of rx,
   followed by a press-by-press simulation of the whole network *)

\* the names of the modules of the sub-circuit behind root a1 and of the one
\* behind root b1: its FlipFlops in chain order, its resetting Conjunction
\* and its inverter
Names ==
    [a |-> [ff |-> <<"a1", "a2", "a3">>, reset |-> "ac", inverter |-> "ai"],
     b |-> [ff |-> <<"b1", "b2", "b3">>, reset |-> "bc", inverter |-> "bi"]]

\* bit j (1 is the lowest) of the binary numeral of n
Bit(n, j) == (n \div (2 ^ (j - 1))) % 2

\* a chain of d.n FlipFlops, each feeding the next, the last feeding to
ChainLines(x, d, to) ==
    [j \in 1..d.n |->
        Line("%", Names[x].ff[j],
             IF j < d.n THEN <<Names[x].ff[j + 1]>> ELSE <<to>>)]

\* a counter to d.n (odd) on d.bits FlipFlops: the FlipFlops of the one bits
\* feed a Conjunction that, when all are on, flips the first FlipFlop and
\* those of the zero bits, which takes the count back to zero
CounterLines(x, d) ==
    LET ff == Names[x].ff
        rc == Names[x].reset
        zeros == SelectSeq([j \in 1..d.bits |-> j], LAMBDA j : Bit(d.n, j) = 0)
    IN [j \in 1..d.bits |->
           Line("%", ff[j],
                (IF j < d.bits THEN <<ff[j + 1]>> ELSE <<>>)
                \o (IF Bit(d.n, j) = 1 THEN <<rc>> ELSE <<>>))]
       \o << Line("&", rc, <<ff[1]>> \o [i \in 1..Len(zeros) |-> ff[zeros[i]]]
                                    \o <<Names[x].inverter>>) >>

\* the lines of the sub-circuit d behind root x1
SubCircuit(x, d) ==
    IF d.shape = "chain" THEN ChainLines(x, d, "p")
    ELSE IF d.shape = "inverted"
    THEN ChainLines(x, d, Names[x].inverter)
         \o << Line("&", Names[x].inverter, <<"p">>) >>
    ELSE CounterLines(x, d) \o << Line("&", Names[x].inverter, <<"p">>) >>

\* the number of presses after which the sub-circuit is back in its first state
Period(d) == IF d.shape = "counter" THEN d.n ELSE 2 ^ d.n

Shapes ==
    {[shape |-> "chain", n |-> k] : k \in 2..3}
    \cup {[shape |-> "inverted", n |-> k] : k \in 1..3}
    \cup {[shape |-> "counter", n |-> 3, bits |-> 2],
          [shape |-> "counter", n |-> 5, bits |-> 3]}

TwoCircuits(d1, d2) ==
    << Line("", "broadcaster", <<"a1", "b1">>) >>
    \o SubCircuit("a", d1) \o SubCircuit("b", d2)
    \o << Line("&", "p", <<Sink>>) >>

TextsLcm == {TwoCircuits(d1, d2) : d1 \in Shapes, d2 \in Shapes}

\* the descriptions of the two sub-circuits of every text of TextsLcm
DesignOf ==
    [t \in TextsLcm |-> CHOOSE d \in Shapes \X Shapes : TwoCircuits(d[1], d[2]) = t]

Designs(t) == DesignOf[t]

\* the periods of the two sub-circuits of a text of TextsLcm
Periods(t) == <<Period(Designs(t)[1]), Period(Designs(t)[2])>>

\* solve has returned: the whole network, as parsed, is simulated press by press
BruteForce ==
    /\ pcB = "done"
    /\ pc = "none"
    /\ modules' = network
    /\ pc' = "loop"
    /\ hist' = [n \in DOMAIN network |-> <<>>]
    /\ UNCHANGED <<text, pulses, pulses_low, pulses_high, press, result, last,
                   created, sent, recv, heard, first_low, emitted, vars2, varsB>>

NextLcm ==
    \/ LoadFrom(TextsLcm) /\ UNCHANGED <<varsA, histA, vars2>>
    \/ Decompose /\ UNCHANGED <<varsA, histA, vars2>>
    \/ RunCycles
    \/ BruteForce
    \/ Press(ret) /\ UNCHANGED <<vars2, varsB>>
    \/ Deliver /\ UNCHANGED <<vars2, varsB>>

SpecLcm == InitCycle /\ [][NextLcm]_vars

----------------------------------------------------------------------------
(* Part B run twice on one text, each time on a network parse_text builds *)

\* main is run once more on the same text: what solve returned and the pairs
\* it got are kept, and parse_text builds a network again
Rerun ==
    /\ pcB = "done"
    /\ earlier = <<>>
    /\ earlier' = <<[ret |-> ret, periods |-> periods]>>
    /\ network' \in ParseText(text)
    /\ pcB' = "start"
    /\ subnetworks' = <<>>
    /\ idx' = 0
    /\ ret' = 0
    /\ states' = EmptyMap
    /\ step' = 0
    /\ cycle_pulses' = <<>>
    /\ periods' = <<>>
    /\ snaps' = EmptyMap
    /\ UNCHANGED text

NextTwoOrders ==
    \/ Load /\ UNCHANGED <<varsA, histA, vars2>>
    \/ Decompose /\ UNCHANGED <<varsA, histA, vars2>>
    \/ RunCycles
    \/ Rerun /\ UNCHANGED <<varsA, histA, vars2>>

SpecTwoOrders == InitCycle /\ [][NextTwoOrders]_vars

----------------------------------------------------------------------------
(* Part B on the texts of part A, in which rx is an output of no module, of
   one or of two, and a module may list the broadcaster *)

NextDecompose ==
    \/ LoadFrom(Texts \cup TextsBroadcast) /\ UNCHANGED <<varsA, histA, vars2>>
    \/ Decompose /\ UNCHANGED <<varsA, histA, vars2>>
    \/ RunCycles

SpecDecompose == InitCycle /\ [][NextDecompose]_vars

----------------------------------------------------------------------------
(* parse_text on texts of up to MaxLines lines, well formed or not *)

MaxLines == 3

\* lines that parse, two more declarations of a, and lines that do not parse
LinePool ==
    {Line("", "broadcaster", <<"a">>), Line("%", "a", <<"b">>), Line("&", "b", <<"a">>),
     Line("%", "a", <<"a">>), Line("&", "a", <<"b">>), Line("%", "a", <<"b", "b">>),
     NoArrow("%", "a"), Line("", "a", <<"b">>), Blank}

TextsParse == UNION {[1..n -> LinePool] : n \in 1..MaxLines}

NextParse == LoadFrom(TextsParse) /\ UNCHANGED <<varsA, histA, vars2>>

SpecParse == InitCycle /\ [][NextParse]_vars

----------------------------------------------------------------------------
(* Properties of part A *)

\* the level the receiver heard last from the sender; low if it never heard
Heard(receiver, sender) ==
    IF <<receiver, sender>> \in DOMAIN heard THEN heard[<<receiver, sender>>] ELSE FALSE

\* the pulses of a queue counted by level
Pending(queue) == Count([low |-> 0, high |-> 0], queue)

\* C1: within a tick pulses are delivered in the order they were appended:
\* the pulses delivered so far are the first pulses created in the tick, and
\* the queue holds the others, oldest first, so a pulse produced by a
\* delivery waits behind everything that was pending at that moment.
C1_FifoOrder ==
    /\ Len(recv) <= Len(sent)
    /\ recv = SubSeq(sent, 1, Len(recv))
    /\ pulses = SubSeq(sent, Len(recv) + 1, Len(sent))

\* a delivery appended pulses behind pending ones that differ from them
C1_Witness ==
    /\ last.out # <<>>
    /\ Len(pulses) > Len(last.out)
    /\ Head(pulses) # last.out[1]
    /\ Len(recv) >= 3

\* C2: a Conjunction that received a pulse holds, under every input, the
\* level that input sent last (low if it never sent, the pulse just received
\* under its sender), and emitted low to every output if all of them are
\* high, high to every output otherwise.
C2_NandLaw ==
    (last.defined /\ last.before.tag = "Conjunction") =>
        LET c == modules[last.receiver]
            allHigh == \A i \in 1..Len(c.input) : Heard(last.receiver, c.input[i])
        IN /\ Heard(last.receiver, last.sender) = last.pulse
           /\ \A i \in 1..Len(c.input) :
                  c.kind.memory[i] = Heard(last.receiver, c.input[i])
           /\ Len(last.out) = Len(c.output)
           /\ \A k \in 1..Len(last.out) : last.out[k][3] = ~allHigh

\* a Conjunction with several inputs, one of which never sent, emitted high,
\* and another with several inputs emitted low
C2_Witness ==
    /\ last.defined
    /\ last.before.tag = "Conjunction"
    /\ Len(modules[last.receiver].input) >= 2
    /\ last.out # <<>>
    /\ last.out[1][3] = FALSE
    /\ \E n \in DOMAIN hist :
          /\ hist[n] # <<>>
          /\ hist[n][1].before.tag = "Conjunction"
          /\ hist[n][1].out[1][3] = TRUE

\* C3: a high pulse delivered to a FlipFlop leaves its on bit as it was and
\* produces no pulse.
C3_FlipFlopAbsorbsHigh ==
    (last.defined /\ last.before.tag = "FlipFlop" /\ last.pulse) =>
        /\ modules[last.receiver].kind = last.before
        /\ last.out = <<>>

\* the latest delivery was a high pulse to a FlipFlop that was on, and the
\* latest delivery to another FlipFlop was a high pulse while it was off
C3_Witness ==
    /\ last.defined
    /\ last.before = FlipFlop(TRUE)
    /\ last.pulse
    /\ \E n \in DOMAIN hist :
          /\ hist[n] # <<>>
          /\ hist[n][Len(hist[n])].before = FlipFlop(FALSE)
          /\ hist[n][Len(hist[n])].pulse

\* the two latest deliveries to n were low pulses to a FlipFlop
TwoLows(n) ==
    /\ Len(hist[n]) = 2
    /\ hist[n][1].before.tag = "FlipFlop"
    /\ ~hist[n][1].pulse
    /\ ~hist[n][2].pulse

\* C4: after two consecutive low pulses to a FlipFlop its on bit is the one
\* it had before the first, and the levels it emitted are complementary.
C4_ToggleLaw ==
    \A n \in DOMAIN hist :
        TwoLows(n) =>
            /\ modules[n].kind.on = hist[n][1].before.on
            /\ hist[n][1].out # <<>>
            /\ hist[n][2].out # <<>>
            /\ \A i \in 1..Len(hist[n][1].out), j \in 1..Len(hist[n][2].out) :
                   hist[n][1].out[i][3] # hist[n][2].out[j][3]

\* one FlipFlop took two lows starting off, another starting on
C4_Witness ==
    /\ \E n \in DOMAIN hist : TwoLows(n) /\ ~hist[n][1].before.on
    /\ \E n \in DOMAIN hist : TwoLows(n) /\ hist[n][1].before.on

\* C5: every pulse created (the seeds and the pulses modules emit) is tallied
\* once, under its level, when it is popped: the tallies and the pulses still
\* queued add up to the pulses created, so after any number of whole ticks
\* low_total + high_total is the number of pulses created.
C5_TallyConservation ==
    /\ pulses_low + Pending(pulses).low = created.low
    /\ pulses_high + Pending(pulses).high = created.high
    /\ pulses = <<>> => pulses_low + pulses_high = created.low + created.high

\* the run returned after tallying pulses of both levels, some of them sent
\* to a name that is no module
C5_Witness ==
    /\ pc = "done"
    /\ pulses_high > 0
    /\ pulses_low > press
    /\ ~last.defined

\* C7: on the first sample the product returned after 1000 presses is 32000000.
C7_Sample1 == (pc = "done" /\ text = Sample1) => result = 32000000

C7_Witness == pc = "done" /\ text = Sample1 /\ press = NumPresses /\ pulses = <<>>

\* C8: on the second sample, whose output is no module, the product returned
\* after 1000 presses is 11687500.
C8_Sample2 == (pc = "done" /\ text = Sample2) => result = 11687500

C8_Witness ==
    /\ pc = "done" /\ text = Sample2 /\ press = NumPresses /\ pulses = <<>>
    /\ "output" \notin DOMAIN modules

\* the state of module n of a network as the data model has it: the bit of a
\* FlipFlop, and for a Conjunction the level remembered under each input name
StateOf(mods, n) ==
    LET m == mods[n]
    IN IF m.kind.tag = "Conjunction"
       THEN [tag |-> "Conjunction",
             memory |-> {<<m.input[i], m.kind.memory[i]>> : i \in 1..Len(m.input)}]
       ELSE m.kind

\* C6: two runs of part A on networks built from the same text are, after
\* the same number of steps, at the same place with the same pending pulses
\* (so they deliver the same pulses in the same order), the same state of
\* every module and the same tallies, and they return the same product.
C6_Determinism ==
    /\ pc2 = pc
    /\ press2 = press
    /\ pulses2 = pulses
    /\ pulses_low2 = pulses_low
    /\ pulses_high2 = pulses_high
    /\ result2 = result
    /\ DOMAIN modules2 = DOMAIN modules
    /\ \A n \in DOMAIN modules : StateOf(modules2, n) = StateOf(modules, n)

\* both runs returned, and their networks list the inputs of a Conjunction
\* that remembers a high and a low level in different orders
C6_Witness ==
    /\ pc = "done"
    /\ pc2 = "done"
    /\ result > 0
    /\ \E n \in DOMAIN modules :
          /\ modules[n].kind.tag = "Conjunction"
          /\ modules[n].input # modules2[n].input
          /\ modules[n].kind.memory # modules2[n].kind.memory

\* C15: the delivery of a pulse whose receiver is no module of the network
\* is no failure: the pulse is tallied once, under its level, nothing is
\* added to the queue, the modules stay as they are and solve goes on with
\* the rest of the queue.
C15_ExternalSink ==
    [][(pc = "loop" /\ pulses # <<>> /\ Head(pulses)[2] \notin DOMAIN modules) =>
          /\ pc' = "loop"
          /\ modules' = modules
          /\ pulses' = Tail(pulses)
          /\ pulses_low' = pulses_low + (IF Head(pulses)[3] THEN 0 ELSE 1)
          /\ pulses_high' = pulses_high + (IF Head(pulses)[3] THEN 1 ELSE 0)]_vars

\* a high pulse was delivered to rx, which no line declares, and a pulse is
\* still pending
C15_Witness ==
    /\ pc = "loop"
    /\ last.receiver = Sink
    /\ ~last.defined
    /\ last.pulse
    /\ last.out = <<>>
    /\ pulses # <<>>

\* C16: solve presses the button exactly 1000 times on the one network: a
\* press starts from the modules as the press before left them and adds one
\* to the low tally, no step lowers a tally, and the value returned after
\* the 1000th press is the product of the two tallies of all presses.
C16_CounterAccumulates ==
    /\ [](pc = "done" =>
            /\ press = NumPresses
            /\ pulses_low = created.low
            /\ pulses_high = created.high
            /\ result = pulses_low * pulses_high)
    /\ [][/\ press' # press =>
               /\ press' = press + 1
               /\ modules' = modules
               /\ pulses_low' = pulses_low + 1
               /\ pulses_high' = pulses_high
          /\ pulses_low' >= pulses_low
          /\ pulses_high' >= pulses_high
          /\ press' >= press]_vars

\* solve returned the product of the tallies of 1000 presses of sample 2
C16_Witness ==
    /\ pc = "done"
    /\ press = NumPresses
    /\ created = [low |-> 4250, high |-> 2750]
    /\ result = created.low * created.high

\* the output list the text declares for the module called name (the last
\* declaration counts)
Declared(name) ==
    LET lines == {i \in DOMAIN text : text[i].name = name}
    IN text[CHOOSE i \in lines : \A j \in lines : j <= i].output

\* the pulses a module called name sends when it emits level
Sends(name, level) ==
    [i \in 1..Len(Declared(name)) |-> <<name, Declared(name)[i], level>>]

\* C17: a Broadcast that receives a pulse, from whichever sender and of
\* whichever level, sends a low pulse to each of its outputs and stays as it
\* was.
C17_BroadcasterLow ==
    (last.defined /\ last.before = Broadcast) =>
        /\ last.out = Sends(last.receiver, FALSE)
        /\ modules[last.receiver].kind = Broadcast

\* the broadcaster got a high pulse from a module and sent two low pulses
C17_Witness ==
    /\ last.defined
    /\ last.before = Broadcast
    /\ last.pulse
    /\ last.sender \in {"a", "b"}
    /\ Len(last.out) = 2
    /\ \A i \in 1..2 : ~last.out[i][3]

\* C18: a FlipFlop that receives a low pulse inverts its bit and sends each
\* of its outputs a pulse of the level of the new bit: high if it is now on,
\* low if it is now off.
C18_FlipFlopOnLow ==
    (last.defined /\ last.before.tag = "FlipFlop" /\ ~last.pulse) =>
        /\ modules[last.receiver].kind = FlipFlop(~last.before.on)
        /\ last.out = Sends(last.receiver, modules[last.receiver].kind.on)

\* a FlipFlop that was on got a low pulse, is off and sent two low pulses
C18_Witness ==
    /\ last.defined
    /\ last.before = FlipFlop(TRUE)
    /\ ~last.pulse
    /\ modules[last.receiver].kind = FlipFlop(FALSE)
    /\ Len(last.out) = 2
    /\ \A i \in 1..2 : ~last.out[i][3]

\* C19: a module that emits adds, at the back of the queue, one pulse per
\* entry of its declared output list, in the order of the list, all of one
\* level and all sent by the module; a name listed twice gets two pulses.
C19_FanOut ==
    (last.defined /\ last.out # <<>>) =>
        /\ last.out = Sends(last.receiver, last.out[1][3])
        /\ Len(pulses) >= Len(last.out)
        /\ SubSeq(pulses, Len(pulses) - Len(last.out) + 1, Len(pulses)) = last.out
        /\ SubSeq(sent, Len(sent) - Len(last.out) + 1, Len(sent)) = last.out

\* a module whose output list names a twice sent a two pulses, behind a
\* pulse that was pending already
C19_Witness ==
    /\ last.defined
    /\ last.sender # "button"
    /\ Len(last.out) = 2
    /\ last.out[1] = last.out[2]
    /\ Len(pulses) > 2
    /\ SubSeq(pulses, Len(pulses) - 1, Len(pulses)) = last.out

\* C20: a press finds the queue empty, creates the one low pulse of the
\* button for the broadcaster and counts it as one low pulse; so when N
\* presses are over the low tally is at least N times one more than the
\* number of outputs of the broadcaster.
C20_SeedCounted ==
    /\ []((pc \in {"loop", "done"} /\ pulses = <<>>) =>
            pulses_low >= press * (1 + Len(Declared("broadcaster"))))
    /\ [][press' # press =>
              /\ pulses = <<>>
              /\ press' = press + 1
              /\ pulses_low' = pulses_low + 1
              /\ pulses_high' = pulses_high
              /\ recv' = <<SeedA>>
              /\ sent'[1] = SeedA
              /\ \A i \in 2..Len(sent') : sent'[i][1] # "button"]_vars

\* two presses are over on a broadcaster with two outputs and the low tally
\* is exactly 2 * (1 + 2)
C20_Witness ==
    /\ pc = "loop"
    /\ press = 2
    /\ pulses = <<>>
    /\ Len(Declared("broadcaster")) = 2
    /\ pulses_low = 6

\* a FlipFlop is on or a Conjunction remembers a high level
Stirred(module) ==
    \/ module.kind = FlipFlop(TRUE)
    \/ /\ module.kind.tag = "Conjunction"
       /\ \E k \in DOMAIN module.kind.memory : module.kind.memory[k]

\* C22: no step of solve changes the set of module names, the variant of a
\* module's kind, its name, its input list, its output list or the length
\* of a Conjunction's memory; only FlipFlop bits and remembered levels change.
C22_TopologyFixed ==
    [][/\ DOMAIN modules' = DOMAIN modules
       /\ \A n \in DOMAIN modules :
            /\ modules'[n].name = modules[n].name
            /\ modules'[n].input = modules[n].input
            /\ modules'[n].output = modules[n].output
            /\ modules'[n].kind.tag = modules[n].kind.tag
            /\ modules[n].kind.tag = "Conjunction" =>
                  Len(modules'[n].kind.memory) = Len(modules[n].kind.memory)]_vars

\* two presses are over, a FlipFlop is on and a Conjunction remembers a
\* high level
C22_Witness ==
    /\ pc = "loop"
    /\ press = 2
    /\ pulses = <<>>
    /\ \E n \in DOMAIN modules : modules[n].kind = FlipFlop(TRUE)
    /\ \E n \in DOMAIN modules : modules[n].kind.tag = "Conjunction" /\ Stirred(modules[n])

\* C23: the delivery of a pulse leaves every module but its receiver as it
\* was.
C23_OnlyReceiverChanges ==
    [][\A n \in DOMAIN modules :
          n # (IF pulses = <<>> THEN SeedA[2] ELSE Head(pulses)[2]) =>
              modules'[n] = modules[n]]_vars

\* a delivery changed its receiver while the module that sent the pulse, and
\* that the receiver sends to, stayed on
C23_Witness ==
    /\ last.defined
    /\ modules[last.receiver].kind # last.before
    /\ last.sender \in DOMAIN modules
    /\ last.sender # last.receiver
    /\ modules[last.sender].kind = FlipFlop(TRUE)
    /\ \E i \in DOMAIN last.out : last.out[i][2] = last.sender

----------------------------------------------------------------------------
(* Properties of calculate_cycle *)

\* the defined modules that module n of mods sends to
Successors(mods, n) ==
    {mods[n].output[i] : i \in 1..Len(mods[n].output)} \cap DOMAIN mods

\* the modules reachable from those of frontier along output edges
RECURSIVE Reachable(_, _, _)
Reachable(mods, frontier, seen) ==
    IF frontier \subseteq seen THEN seen
    ELSE Reachable(mods,
                   UNION {Successors(mods, n) : n \in frontier \ seen},
                   seen \cup frontier)

\* no module of mods is reachable from itself
Acyclic(mods) ==
    \A n \in DOMAIN mods : n \notin Reachable(mods, Successors(mods, n), {})

\* the queue outgrew the model: the run is followed no further
Overflow == pcB = "tick" /\ Len(cycle_pulses) > MaxQueue

\* C9 as claimed: once a tick is seeded its queue empties, whatever the
\* network (runs that outgrow the model's queue are given the benefit of the
\* doubt).
C9_EveryTickEnds == (cycle_pulses # <<>>) ~> (cycle_pulses = <<>> \/ Overflow)

\* C9, amended: in a network whose defined modules form no directed cycle
\* every tick ends: the queue of a seeded tick empties.
C9_AcyclicTickEnds ==
    (pcB = "tick" /\ cycle_pulses # <<>> /\ Acyclic(Current[3]))
        ~> (cycle_pulses = <<>>)

\* a tick after the first ended in an acyclic sub-network of several modules,
\* after a delivery that emitted nothing
C9_Witness ==
    /\ pcB = "tick"
    /\ cycle_pulses = <<>>
    /\ step >= 2
    /\ Acyclic(Current[3])
    /\ Cardinality(DOMAIN Current[3]) >= 2
    /\ \E n \in DOMAIN Current[3] : Current[3][n].kind = FlipFlop(TRUE)

\* C10 as claimed: every call of calculate_cycle returns (runs that outgrow
\* the model's queue are given the benefit of the doubt).
C10_CycleFinderReturns == (pcB = "tick") ~> (pcB # "tick" \/ Overflow)

\* C10, amended: a call of calculate_cycle all of whose ticks end meets a
\* snapshot it recorded before and returns; it does not return only if one of
\* its ticks never empties the queue.
C10_ReturnsIfTicksEnd ==
    \/ (pcB = "tick") ~> (pcB # "tick")
    \/ <>[](cycle_pulses # <<>>)

\* calculate_cycle returned at its fourth tick, on a snapshot it had recorded
C10_Witness ==
    /\ pcB = "call"
    /\ idx = 2
    /\ step = 4
    /\ Lookup(states, subnetworks[1][3]) # <<>>
    /\ ret = step - Lookup(states, subnetworks[1][3])[1]

\* calculate_cycle has returned for the sub-network before idx, and was not
\* entered again since
Returned == pcB \in {"call", "done"} /\ idx > 1

\* C24: when calculate_cycle returns at tick cycle_end, the sub-network is in
\* a state recorded at an earlier tick cycle_start, 0 <= cycle_start <
\* cycle_end, and the ticks 0 .. cycle_end - 1 were recorded with pairwise
\* different snapshots, so that cycle_end is the first tick that repeats
\* one; the first call's pair gives solve the period cycle_end - cycle_start.
C24_FirstRepeat ==
    Returned =>
        LET final == subnetworks[idx - 1][3]
            cycle_end == step
        IN /\ final \in DOMAIN states
           /\ states[final] >= 0
           /\ states[final] < cycle_end
           /\ {states[k] : k \in DOMAIN states} = 0..(cycle_end - 1)
           /\ Cardinality(DOMAIN states) = cycle_end
           /\ idx = 2 => ret = cycle_end - states[final]

\* calculate_cycle returned (1, 4): the state after tick 4 is the state
\* after tick 1 and not the initial one
C24_Witness ==
    /\ Returned
    /\ step = 4
    /\ subnetworks[idx - 1][3] \in DOMAIN states
    /\ states[subnetworks[idx - 1][3]] = 1
    /\ Cardinality(DOMAIN states) = 4

\* C25: solve starts from 1 and, each time calculate_cycle returns, replaces
\* its value by the least number that both the value so far and the period
\* cycle_end - cycle_start divide; nothing else changes the value, so the
\* period of every sub-network divides the value returned.
C25_LcmOfPeriods ==
    /\ [](Returned => ret % (step - states[subnetworks[idx - 1][3]]) = 0)
    /\ [][/\ pcB = "start" => ret' = 1
          /\ (pcB = "tick" /\ pcB' = "call") =>
                LET period == step - states[Current[3]]
                IN /\ ret' % period = 0
                   /\ ret' % ret = 0
                   /\ \A m \in 1..(ret' - 1) : m % period # 0 \/ m % ret # 0
          /\ ret' # ret => (pcB = "start" \/ (pcB = "tick" /\ pcB' = "call"))]_vars

\* solve returned 6 for two sub-networks, of periods 2 and 3
C25_Witness ==
    /\ pcB = "done"
    /\ Len(subnetworks) = 2
    /\ idx = 3
    /\ step - states[subnetworks[2][3]] = 3
    /\ ret = 6

\* C26: when a tick of calculate_cycle ends in a snapshot recorded at a tick
\* cycle_start other than 0, solve does not fail: it goes on to the next
\* sub-network with the least common multiple of its value and
\* cycle_end - cycle_start.
C26_TransientNotChecked ==
    [][(/\ pcB = "tick"
        /\ cycle_pulses = <<>>
        /\ Current[3] \in DOMAIN states
        /\ states[Current[3]] > 0) =>
          LET period == step - states[Current[3]]
          IN /\ pcB' = "call"
             /\ idx' = idx + 1
             /\ ret' % period = 0
             /\ ret' % ret = 0
             /\ \A m \in 1..(ret' - 1) : m % period # 0 \/ m % ret # 0]_vars

\* solve returned 6 although its last sub-network came back at tick 4 to
\* the state of tick 1, not to its initial state
C26_Witness ==
    /\ pcB = "done"
    /\ idx = 3
    /\ step = 4
    /\ states[subnetworks[2][3]] = 1
    /\ subnetworks[2][3] # CHOOSE k \in DOMAIN states : states[k] = 0
    /\ ret = 6

----------------------------------------------------------------------------
(* Properties of the decomposition *)

\* the simulation has gone through the press solve returned
Simulated == pc = "loop" /\ press = ret /\ pulses = <<>>

\* solve returned the lcm of the two periods, the sink got no low pulse in an
\* earlier press and got one in the press of that index
LcmIsFirstLow ==
    /\ pcB = "done" => ret = Lcm(Periods(text)[1], Periods(text)[2])
    /\ first_low # 0 => first_low = ret
    /\ Simulated => first_low = ret

\* C11 as claimed: for two FlipFlop-chain sub-circuits of periods p1 and p2
\* feeding one shared Conjunction in front of the sink, solve returns
\* lcm(p1, p2), and that is the first press in which the sink receives low.
C11_LcmIsFirstLow == text \in TextsLcm => LcmIsFirstLow

\* both sub-circuits reach p through an inverter of their own and are of one
\* design: two plain chains, or two counters reset by their own Conjunction
SameDesign(t) ==
    /\ Designs(t)[1].shape = Designs(t)[2].shape
    /\ Designs(t)[1].shape \in {"inverted", "counter"}

\* C11, amended: when both sub-circuits feed the shared Conjunction through
\* an inverter of their own and are of one design, solve returns
\* lcm(p1, p2), and that is the first press in which the sink receives low.
C11_SameDesignLcmIsFirstLow ==
    (text \in TextsLcm /\ SameDesign(text)) => LcmIsFirstLow

\* the counters to 3 and to 5: the sink got its first low pulse in press 15,
\* which solve returned
C11_Witness ==
    /\ Simulated
    /\ SameDesign(text)
    /\ Periods(text) = <<3, 5>>
    /\ ret = 15
    /\ first_low = 15

\* the lines of the text that list the sink among their outputs
SinkFeeders ==
    {i \in DOMAIN text : \E k \in DOMAIN text[i].output : text[i].output[k] = Sink}

\* exactly one module feeds the sink and it is declared a Conjunction
OneConjunctionFeedsSink ==
    /\ Cardinality(SinkFeeders) = 1
    /\ \A i \in SinkFeeders : text[i].prefix = "&"

\* C12: once solve has called find_sub_graphs_start_end, it has panicked
\* with no sub-network cut out, no snapshot recorded and no tick seeded
\* unless exactly one Conjunction feeds the sink; it goes on to
\* calculate_cycle only when exactly one does.
C12_FatalUnlessOneConjunction ==
    pcB \notin {"none", "start"} =>
        /\ ~OneConjunctionFeedsSink =>
              /\ pcB = "panic"
              /\ subnetworks = <<>>
              /\ states = EmptyMap
              /\ step = 0
              /\ cycle_pulses = <<>>
        /\ pcB \in {"call", "tick", "done"} => OneConjunctionFeedsSink

\* solve panicked on a text whose sink is fed by a single module, a FlipFlop
C12_Witness ==
    /\ pcB = "panic"
    /\ step = 0
    /\ Cardinality(SinkFeeders) = 1
    /\ \A i \in SinkFeeders : text[i].prefix = "%"

----------------------------------------------------------------------------
(* Properties of parse_text *)

\* line i of the text is not blank and lacks "->", or its name has neither
\* prefix and is not broadcaster
BadLine(i) ==
    /\ text[i] # Blank
    /\ \/ ~text[i].arrow
       \/ text[i].prefix \notin {"%", "&"} /\ text[i].name # "broadcaster"

\* C13: parse_text on a text with a non-blank line that has no "->", or
\* whose name is neither prefixed with % or & nor broadcaster, panics and no
\* network is built.
C13_MalformedLineFails ==
    (pcB # "none" /\ \E i \in DOMAIN text : BadLine(i)) =>
        (pcB = "panic" /\ network = EmptyMap)

\* parse_text panicked at the third line, an unprefixed a, after a
\* declaration and a blank line
C13_Witness ==
    /\ pcB = "panic"
    /\ network = EmptyMap
    /\ Len(text) = 3
    /\ text[1] = Line("", "broadcaster", <<"a">>)
    /\ text[2] = Blank
    /\ text[3] = Line("", "a", <<"b">>)

\* two lines of the text declare the same name
Duplicate ==
    \E i, j \in DOMAIN text :
        i < j /\ text[i] # Blank /\ text[j] # Blank /\ text[i].name = text[j].name

\* C14: parse_text on a text in which two lines declare the same module name
\* fails and builds no network.
C14_DuplicateNameFails ==
    (pcB # "none" /\ Duplicate) => (pcB = "panic" /\ network = EmptyMap)

\* the names that a line of the text declares with name among the outputs
Listers(name) ==
    {text[i].name : i \in {j \in DOMAIN text :
        text[j] # Blank /\ \E k \in DOMAIN text[j].output : text[j].output[k] = name}}

\* C21: in the network parse_text returns every FlipFlop is off, and every
\* Conjunction remembers one level, low, for each distinct name declared
\* with the Conjunction among its outputs, however often it is listed.
C21_FreshNetwork ==
    pcB = "start" =>
        \A n \in DOMAIN network :
            /\ network[n].kind.tag = "FlipFlop" => network[n].kind = FlipFlop(FALSE)
            /\ network[n].kind.tag = "Conjunction" =>
                  /\ Len(network[n].kind.memory) = Cardinality(Listers(n))
                  /\ Len(network[n].input) = Cardinality(Listers(n))
                  /\ {network[n].input[k] : k \in DOMAIN network[n].input} = Listers(n)
                  /\ \A k \in DOMAIN network[n].kind.memory : ~network[n].kind.memory[k]

\* the Conjunction b is listed twice by the FlipFlop a and by no other module,
\* and remembers one level
C21_Witness ==
    /\ pcB = "start"
    /\ text = <<Line("%", "a", <<"b", "b">>), Line("&", "b", <<"a">>),
                Line("", "broadcaster", <<"a">>)>>
    /\ network["b"].kind = Conjunction(<<FALSE>>)
    /\ network["a"].kind = FlipFlop(FALSE)

----------------------------------------------------------------------------
(* Properties of find_sub_graphs_start_end and partition *)

\* the name declared by the line that lists the sink among its outputs
PenultimateName == text[CHOOSE i \in SinkFeeders : TRUE].name

\* C27: once the decomposition has succeeded, the roots are the names the
\* broadcaster's line lists, in its order, the ends are the names declared
\* with the penultimate Conjunction's name among their outputs, and every
\* pair recorded joins a root to an end.
C27_RootsAndEnds ==
    pcB \in {"call", "tick", "done"} =>
        LET trees_start == TreesStart(network)
            trees_end == TreesEnd(network, Feeding(network, Sink))
        IN /\ trees_start = Declared("broadcaster")
           /\ {trees_end[i] : i \in DOMAIN trees_end} = Listers(PenultimateName)
           /\ \A i \in DOMAIN trees_end : trees_end[i] \in DOMAIN network
           /\ \A i \in DOMAIN subnetworks :
                 /\ \E k \in DOMAIN Declared("broadcaster") :
                       subnetworks[i][1] = Declared("broadcaster")[k]
                 /\ subnetworks[i][2] \in Listers(PenultimateName)

\* a pair was recorded whose end is not the penultimate Conjunction, which
\* the end and one more module list
C27_Witness ==
    /\ pcB = "call"
    /\ idx = 1
    /\ \E i \in DOMAIN subnetworks : subnetworks[i][2] # PenultimateName
    /\ Cardinality(Listers(PenultimateName)) = 2

\* the roots named by the broadcaster's line
Roots == {Declared("broadcaster")[k] : k \in DOMAIN Declared("broadcaster")}

\* the modules reached from the outputs of the modules of from
Downstream(from) ==
    Reachable(network, UNION {Successors(network, n) : n \in from}, {})

\* C28: once the decomposition has succeeded, every end that can be reached
\* from the broadcaster is the end of exactly one recorded pair, whose root
\* is a broadcaster output and is the end itself or has the end downstream;
\* this holds for an end that is itself a broadcaster output.
C28_OnePairPerEnd ==
    (pcB = "call" /\ idx = 1) =>
        \A e \in Listers(PenultimateName) \cap Downstream({"broadcaster"}) :
            /\ Cardinality({i \in DOMAIN subnetworks : subnetworks[i][2] = e}) = 1
            /\ \A i \in DOMAIN subnetworks :
                  subnetworks[i][2] = e =>
                      /\ subnetworks[i][1] \in Roots
                      /\ e \in Downstream({subnetworks[i][1]}) \cup {subnetworks[i][1]}

\* the modules on the paths along output edges that start in frontier and do
\* not go on from end
RECURSIVE Avoiding(_, _, _, _)
Avoiding(mods, frontier, seen, end) ==
    IF frontier \subseteq seen THEN seen
    ELSE Avoiding(mods,
                  UNION {Successors(mods, n) : n \in (frontier \ seen) \ {end}},
                  seen \cup frontier, end)

\* C29: every sub-network cut out for a pair (root, end) holds the modules
\* of the network reached from root along output edges without going on
\* from end, and end, each as it is in the freshly parsed network with all
\* its inputs and outputs; the broadcaster is among them only as the end or
\* as an output of a module other than end among them.
C29_SubNetworkMembers ==
    (pcB = "call" /\ idx = 1) =>
        \A i \in DOMAIN subnetworks :
            LET root == subnetworks[i][1]
                end == subnetworks[i][2]
                sub == subnetworks[i][3]
            IN /\ DOMAIN sub = Avoiding(network, {root}, {}, end) \cup {end}
               /\ DOMAIN sub \subseteq DOMAIN network
               /\ \A n \in DOMAIN sub : sub[n] = network[n]
               /\ \A n \in DOMAIN sub :
                     /\ sub[n].output = Declared(n)
                     /\ {sub[n].input[k] : k \in DOMAIN sub[n].input} = Listers(n)
                     /\ sub[n].kind.tag = "FlipFlop" => sub[n].kind = FlipFlop(FALSE)
                     /\ sub[n].kind.tag = "Conjunction" =>
                           \A k \in DOMAIN sub[n].kind.memory : ~sub[n].kind.memory[k]
               /\ ("broadcaster" \in DOMAIN sub /\ end # "broadcaster") =>
                     \E n \in DOMAIN sub \ {end} : "broadcaster" \in Successors(network, n)

\* a sub-network holds the broadcaster, which a module of it lists, and its
\* penultimate Conjunction, whose output rx is no module; its end has an
\* output that was not followed
C29_Witness ==
    /\ pcB = "call"
    /\ idx = 1
    /\ \E i \in DOMAIN subnetworks :
          LET end == subnetworks[i][2]
              sub == subnetworks[i][3]
          IN /\ "broadcaster" \in DOMAIN sub
             /\ end # "broadcaster"
             /\ PenultimateName \in DOMAIN sub
             /\ end # PenultimateName

----------------------------------------------------------------------------
(* Properties of the key of states *)

\* the two snapshots hold the same modules, with every FlipFlop bit and every
\* Conjunction memory equal
SameBits(k, net) ==
    /\ DOMAIN k = DOMAIN net
    /\ \A n \in DOMAIN net :
          /\ net[n].kind.tag = "FlipFlop" =>
                k[n].kind.tag = "FlipFlop" /\ k[n].kind.on = net[n].kind.on
          /\ net[n].kind.tag = "Conjunction" =>
                k[n].kind.tag = "Conjunction" /\ k[n].kind.memory = net[n].kind.memory

\* C30: at the end of a tick calculate_cycle returns when a snapshot recorded
\* at an earlier tick has the FlipFlop bits and Conjunction memories of the
\* sub-network, with the step recorded for that snapshot, and records the
\* sub-network under the tick and goes on when none has; the tick index and
\* the queue play no part.
C30_KeyIsBitsAndMemories ==
    [][(pcB = "tick" /\ cycle_pulses = <<>>) =>
          LET same == {k \in DOMAIN states : SameBits(k, Current[3])}
          IN /\ Cardinality(same) <= 1
             /\ same # {} =>
                   /\ pcB' = "call"
                   /\ \A k \in same : ret' = Lcm(ret, step - states[k])
                   /\ states' = states
             /\ same = {} =>
                   /\ pcB' = "tick"
                   /\ step' = step + 1
                   /\ DOMAIN states' = DOMAIN states \cup {Current[3]}
                   /\ states'[Current[3]] = step
                   /\ \A k \in DOMAIN states : states'[k] = states[k]]_vars

\* calculate_cycle returned at tick 2 on the snapshot recorded at tick 1: the
\* snapshot of tick 0 has the same FlipFlop bits, one of them at least, and
\* another Conjunction memory
C30_Witness ==
    /\ pcB = "call"
    /\ idx = 2
    /\ step = 2
    /\ states[subnetworks[1][3]] = 1
    /\ \E k \in DOMAIN states :
          /\ states[k] = 0
          /\ \E n \in DOMAIN k : k[n].kind.tag = "FlipFlop"
          /\ \A n \in DOMAIN k :
                k[n].kind.tag = "FlipFlop" => k[n] = subnetworks[1][3][n]
          /\ \E n \in DOMAIN k :
                /\ k[n].kind.tag = "Conjunction"
                /\ k[n].kind.memory # subnetworks[1][3][n].kind.memory

----------------------------------------------------------------------------
(* Properties of the sender lookup *)

\* a line of the text declares the Broadcast module
DefinesBroadcaster ==
    \E i \in DOMAIN text : text[i].prefix = "" /\ text[i].name = "broadcaster" /\ text[i].arrow

\* C33: in part A on a text that declares a broadcaster, the sender of every
\* pulse delivered to a Conjunction is in the Conjunction's input list, its
\* index is within the memory, and solve does not panic.
C33_SenderIsInput ==
    DefinesBroadcaster =>
        /\ pc # "panic"
        /\ (last.defined /\ last.before.tag = "Conjunction") =>
              LET module == modules[last.receiver]
              IN /\ Contains(module.input, last.sender)
                 /\ Position(module.input, last.sender) <= Len(last.before.memory)

----------------------------------------------------------------------------
(* Properties of the FlipFlop's bit *)

\* C37: at every point of part A, every FlipFlop that has sent pulses sent
\* the last of them at the level of its bit: high if it is on, low if off.
C37_LastEmittedIsBit ==
    \A n \in DOMAIN modules :
        (modules[n].kind.tag = "FlipFlop" /\ n \in DOMAIN emitted) =>
            emitted[n] = modules[n].kind.on

\* in the middle of a tick the FlipFlop a, which has been on, is off, has
\* sent low pulses last and has absorbed a high pulse since
C37_Witness ==
    /\ pc = "loop"
    /\ pulses # <<>>
    /\ "a" \in DOMAIN emitted
    /\ modules["a"].kind = FlipFlop(FALSE)
    /\ ~emitted["a"]
    /\ last.receiver = "a"
    /\ last.pulse
    /\ last.out = <<>>

----------------------------------------------------------------------------
(* Properties of the input lists *)

\* C38: in part A on a text without a duplicate name, at every point of
\* every tick, the input list of every module m holds a name n exactly when
\* n is a module whose output list holds m, holds no name twice, and the
\* memory of every Conjunction is as long as its input list.
C38_InputsMirrorOutputs ==
    ~Duplicate =>
        \A m \in DOMAIN modules :
            LET input == modules[m].input
            IN /\ \A n \in DOMAIN modules :
                     Contains(input, n) <=> Contains(modules[n].output, m)
               /\ \A i \in DOMAIN input : input[i] \in DOMAIN modules
               /\ \A i, j \in DOMAIN input : input[i] = input[j] => i = j
               /\ modules[m].kind.tag = "Conjunction" =>
                     Len(modules[m].kind.memory) = Len(input)

\* in the second press a Conjunction with two inputs, one of which lists it
\* twice, remembers a high and a low level
C38_Witness ==
    /\ pc = "loop"
    /\ press = 2
    /\ \E m \in DOMAIN modules :
          /\ modules[m].kind.tag = "Conjunction"
          /\ Len(modules[m].input) = 2
          /\ modules[m].kind.memory[1] # modules[m].kind.memory[2]
          /\ \E n \in DOMAIN modules : modules[n].output = <<m, m>>

----------------------------------------------------------------------------
(* Properties of solve's use of the network *)

\* C36: from the call of the part B solve to its return the network it was
\* given is one that parse_text returns for the text: every FlipFlop is off
\* and every Conjunction remembers low for all its inputs.
C36_NetworkUntouched ==
    pcB \in {"start", "call", "tick", "done"} =>
        /\ network \in ParseText(text)
        /\ \A n \in DOMAIN network :
              /\ network[n].kind.tag = "FlipFlop" => ~network[n].kind.on
              /\ network[n].kind.tag = "Conjunction" =>
                    \A k \in DOMAIN network[n].kind.memory : ~network[n].kind.memory[k]

\* solve has returned after two calls of calculate_cycle; in the first
\* sub-network a FlipFlop is on and a Conjunction remembers a high level
C36_Witness ==
    /\ pcB = "done"
    /\ idx = 3
    /\ \E n \in DOMAIN subnetworks[1][3] : subnetworks[1][3][n].kind = FlipFlop(TRUE)
    /\ \E n \in DOMAIN subnetworks[1][3] :
          /\ subnetworks[1][3][n].kind.tag = "Conjunction"
          /\ \E k \in DOMAIN subnetworks[1][3][n].kind.memory :
                subnetworks[1][3][n].kind.memory[k]

----------------------------------------------------------------------------
(* Properties of solve on an empty decomposition *)

\* one Conjunction feeds the sink and none of the modules that list it is
\* downstream of a broadcaster output
NoRootBehindAnyEnd ==
    /\ OneConjunctionFeedsSink
    /\ "broadcaster" \in DOMAIN network
    /\ Listers(PenultimateName) \cap Downstream(Roots \cap DOMAIN network) = {}

\* C35: when the decomposition has recorded no pair, as it does when no end
\* has a root behind it, solve has simulated nothing, holds 1, has not
\* panicked, and its next step is to return 1.
C35_NoPairReturnsOne ==
    /\ [](((pcB \notin {"none", "start"}) /\ NoRootBehindAnyEnd) =>
             (pcB \in {"call", "done"} /\ subnetworks = <<>>))
    /\ []((pcB \in {"call", "tick", "done"} /\ subnetworks = <<>>) =>
             /\ pcB # "tick"
             /\ ret = 1
             /\ states = EmptyMap
             /\ step = 0
             /\ cycle_pulses = <<>>)
    /\ [][(pcB = "call" /\ subnetworks = <<>>) =>
             (pcB' = "done" /\ ret' = 1 /\ subnetworks' = <<>>)]_vars

\* solve returned 1 on a text with an end, the broadcaster's output a, and
\* no pair
C35_Witness ==
    /\ pcB = "done"
    /\ ret = 1
    /\ subnetworks = <<>>
    /\ Listers(PenultimateName) = {"a"}
    /\ Roots = {"a"}

----------------------------------------------------------------------------
(* Properties of the ticks of calculate_cycle *)

\* C32: a tick of calculate_cycle starts from an empty queue with the one
\* pulse <<broadcaster, root, low>>; while the queue is not empty its head is
\* taken, the pulses the receiver sends are put at its end, a head addressed
\* to a name outside the sub-network changes no module, and no snapshot is
\* recorded and no tick started; a snapshot is recorded only when the queue
\* is empty.
C32_TickOfSubNetwork ==
    [][/\ (pcB' = "tick" /\ step' # step) =>
             /\ cycle_pulses = <<>>
             /\ cycle_pulses' = << <<"broadcaster", subnetworks'[idx'][1], FALSE>> >>
             /\ subnetworks' = subnetworks
       /\ (pcB = "tick" /\ cycle_pulses # <<>>) =>
             /\ states' = states
             /\ step' = step
             /\ idx' = idx
             /\ Len(cycle_pulses') >= Len(cycle_pulses) - 1
             /\ SubSeq(cycle_pulses', 1, Len(cycle_pulses) - 1) = Tail(cycle_pulses)
             /\ \A k \in Len(cycle_pulses)..Len(cycle_pulses') :
                   cycle_pulses'[k][1] = Head(cycle_pulses)[2]
             /\ Head(cycle_pulses)[2] \notin DOMAIN Current[3] =>
                   /\ subnetworks' = subnetworks
                   /\ cycle_pulses' = Tail(cycle_pulses)
                   /\ pcB' = "tick"
       /\ states' # states => cycle_pulses = <<>>]_vars

\* in the second tick the head of the queue is addressed to the penultimate
\* Conjunction p, a module of the network and not of the sub-network
C32_Witness ==
    /\ pcB = "tick"
    /\ step = 2
    /\ cycle_pulses # <<>>
    /\ Head(cycle_pulses)[2] = "p"
    /\ Len(cycle_pulses) >= 2
    /\ "p" \in DOMAIN network
    /\ "p" \notin DOMAIN Current[3]

----------------------------------------------------------------------------
(* Properties of the order of the input lists *)

\* C34, for part B (C6 is the statement for part A): two runs of main on one
\* text, whose networks may list the inputs of a module in different
\* orders, get the same (cycle_start, cycle_end) pairs from calculate_cycle
\* and return the same number.
C34_OrderIndependent ==
    (pcB = "done" /\ earlier # <<>>) =>
        /\ earlier[1].periods = periods
        /\ earlier[1].ret = ret

----------------------------------------------------------------------------
(* Properties of the isolated sub-networks *)

\* C31: on the texts of two sub-circuits that share no module and reach the
\* rest only through the Conjunction p, whenever the whole network has been
\* simulated for k presses, every module of every sub-network is in the
\* state it had after k ticks of calculate_cycle on the sub-network alone.
C31_IsolatedTicksMatchPresses ==
    (text \in TextsLcm /\ pc = "loop" /\ pulses = <<>>) =>
        \A i \in DOMAIN subnetworks :
            <<i, press>> \in DOMAIN snaps =>
                \A n \in DOMAIN snaps[<<i, press>>] :
                    snaps[<<i, press>>][n] = modules[n]

\* after three presses the whole network agrees with both sub-networks as
\* they were after three ticks; in one a FlipFlop is on and a Conjunction
\* remembers a high level
C31_Witness ==
    /\ pc = "loop"
    /\ pulses = <<>>
    /\ press = 3
    /\ <<1, 3>> \in DOMAIN snaps
    /\ <<2, 3>> \in DOMAIN snaps
    /\ \E n \in DOMAIN snaps[<<1, 3>>] : modules[n].kind = FlipFlop(TRUE)
    /\ \E n \in DOMAIN snaps[<<1, 3>>] :
          /\ modules[n].kind.tag = "Conjunction"
          /\ \E k \in DOMAIN modules[n].kind.memory : modules[n].kind.memory[k]

====
